---- MODULE Spec2Model ----
(***************************************************************************)
(* Model of the kv client library (src/mod.ts): connect() and the options  *)
(* it resolves, the KeyManager registry, the AES-GCM envelope codec        *)
(* (encryptData / decryptData), the key codec (exportCryptoKey /           *)
(* importCryptoKey) and the client calls get(), list(), set() and          *)
(* AtomicOperation.commit() that use them.                                 *)
(*                                                                         *)
(* The HTTP server is outside the repository.  It is modelled as a store   *)
(* that keeps the record a PUT or an atomic set carries and hands it back  *)
(* on GET; a key it does not hold reads as value null, version null        *)
(* (src/mod.test.ts:34-35).                                                *)
(*                                                                         *)
(* An async function runs synchronously up to its first await, so every    *)
(* action below is one such synchronous stretch; key-manager calls made by *)
(* other tasks interleave between the stretches.                           *)
(***************************************************************************)
EXTENDS Integers, Sequences, FiniteSets, TLC

VARIABLES
    options,         \* Kv.options, the options connect() resolved
    hasKeyManager,   \* options.keyManager is set (src/mod.ts:795)
    keys,            \* KeyManager.keys
    activeKid,       \* KeyManager.activeKid
    exceptKvKeys,    \* KeyManager.exceptKvKeys
    onlyKvKeys,      \* KeyManager.onlyKvKeys
    store,           \* the server's records, by key
    checks,          \* AtomicOperation.checks
    operations,      \* AtomicOperation.operations
    task,            \* the client call in flight, suspended at an await
    sent,            \* the request the last step handed to the transport
    result,          \* the outcome of the last completed call
    written          \* history: the set() whose envelope is under observation

vars == <<options, hasKeyManager, keys, activeKid, exceptKvKeys, onlyKvKeys, store,
          checks, operations, task, sent, result, written>>

kmVars == <<keys, activeKid, exceptKvKeys, onlyKvKeys>>
atomicVars == <<checks, operations>>

----------------------------------------------------------------------------
(* Bounds of the model *)

MaxKeys == 2        \* longest KeyManager.keys
MaxPatterns == 1    \* longest onlyKvKeys / exceptKvKeys
MaxOps == 2         \* longest AtomicOperation.operations
MaxChecks == 1      \* longest AtomicOperation.checks

----------------------------------------------------------------------------
(* Universe of inputs *)

Kids == {"a", "b"}
Materials == {"K1", "K2"}

\* JwtCryptoKey (src/mod.ts:716): the kid and the CryptoKey; kid "" is the
\* key without a kid.
JwtCryptoKeys ==
    { [kid |-> "a", key |-> "K1"], [kid |-> "a", key |-> "K2"],
      [kid |-> "b", key |-> "K1"], [kid |-> "", key |-> "K2"] }

\* The key the client reads and writes.
KvKeys == {<<"foo", "bar">>}

\* Every key the policy is evaluated on: one to three segments.
Segments == {"foo", "bar", "baz"}
AllKvKeys == UNION {[1..n -> Segments] : n \in 1..3}

\* Patterns registered with addOnlyKvKeys / addExceptKvKeys
\* (those of testSpecificKeys).
Patterns == {<<"foo", "*">>, <<"foo", "bar">>, <<"bar", "baz">>}

\* Plain JavaScript values handed to set(); an envelope is a record with ct.
Values == {"obj1", "obj2"}
Plain(js) == [js |-> js]
IsEnvelope(v) == "ct" \in DOMAIN v

\* Initialization vectors crypto.getRandomValues may return.
IVs == {"iv1"}

Null == "null"
Idle == [op |-> "idle"]
NoRequest == [method |-> "none"]
NoResult == [op |-> "none"]
NoWrite == [key |-> <<>>]

Ok(v) == [ok |-> TRUE, val |-> v]
Err(msg) == [ok |-> FALSE, err |-> msg]

ErrNoKeyManager == "Encrypted value received but no key manager available"
ErrNotObject == "Encrypted value received but value is not a object"
ErrDecrypt == "Failed to decrypt value"
\* (the source writes kid between backquotes)
ErrKidRequired == "The kid property is required"
ErrActiveKey == "Active key not found"
ErrTypeError == "TypeError"
ErrKeyNotFound(kid) == "Key with ID " \o kid \o " not found"

----------------------------------------------------------------------------
(* KeyManager: the pure methods *)

\* Array.prototype.find: the first element with the kid, or none.
FindKid(kid) ==
    LET idx == {i \in DOMAIN keys : keys[i].kid = kid}
    IN  IF idx = {} THEN <<>>
        ELSE <<keys[CHOOSE i \in idx : \A j \in idx : i <= j]>>

\* Variant: the lookup ignores the kid and takes the active key.
getKey_active(kid) ==
    LET key == FindKid(activeKid)
    IN  IF key = <<>> THEN Err(ErrKeyNotFound(kid)) ELSE Ok(key[1].key)

getKey(kid) ==
    LET key == FindKid(kid)
    IN  IF key = <<>> THEN Err(ErrKeyNotFound(kid)) ELSE Ok(key[1].key)

getActiveKey ==
    LET key == FindKid(activeKid)
    IN  IF key = <<>> THEN Err(ErrActiveKey) ELSE Ok(key[1])

isAvailable == Len(keys) > 0 /\ activeKid # ""

\* Variant: a trailing "*" matches every remaining segment of the key.
matchKeyPath_prefix(pattern, key) ==
    IF Len(pattern) > Len(key) THEN FALSE
    ELSE \A index \in DOMAIN pattern :
            \/ pattern[index] = key[index]
            \/ pattern[index] = "*" /\ index <= Len(key)

matchKeyPath(pattern, key) ==
    IF Len(pattern) # Len(key) THEN FALSE
    ELSE \A index \in DOMAIN pattern :
            pattern[index] = "*" \/ pattern[index] = key[index]

\* Variant: a key on the only list is encrypted without consulting the
\* except list.
shouldEncrypt_onlyWins(key) ==
    IF ~isAvailable THEN FALSE
    ELSE IF Len(onlyKvKeys) > 0
         THEN \E i \in DOMAIN onlyKvKeys : matchKeyPath(onlyKvKeys[i], key)
         ELSE ~(\E i \in DOMAIN exceptKvKeys : matchKeyPath(exceptKvKeys[i], key))

shouldEncrypt(key) ==
    IF ~isAvailable THEN FALSE
    ELSE IF Len(onlyKvKeys) > 0
            /\ ~(\E i \in DOMAIN onlyKvKeys : matchKeyPath(onlyKvKeys[i], key))
         THEN FALSE
         ELSE ~(\E i \in DOMAIN exceptKvKeys : matchKeyPath(exceptKvKeys[i], key))

\* options.keyManager?.shouldEncrypt(key), as a condition
kmShouldEncrypt(key) == hasKeyManager /\ shouldEncrypt(key)

----------------------------------------------------------------------------
(* Envelope codec *)

\* JSON.stringify / JSON.parse on the values of the model: NaN is written
\* as null.
\* Variant: String(data) in place of JSON.stringify(data).
JSONstringify_toString(js) == [json |-> "[object Object]"]

JSONstringify(js) == IF js = "NaN" THEN [json |-> Null] ELSE [json |-> js]
JSONparse(text) == text.json

\* AES-GCM: the ciphertext opens only under the key and iv that sealed it.
AesGcmEncrypt(key, iv, text) == [k |-> key, iv |-> iv, pt |-> text]
\* Variant: the ciphertext opens under any key.
AesGcmDecrypt_anyKey(key, iv, ct) == Ok(ct.pt)

AesGcmDecrypt(key, iv, ct) ==
    IF ct.k = key /\ ct.iv = iv THEN Ok(ct.pt) ELSE Err(ErrDecrypt)

\* Variant: the newest key of the registry seals the value.
encryptData_newestKey(data, iv) ==
    IF ~getActiveKey.ok THEN getActiveKey
    ELSE LET jwk == keys[Len(keys)]
         IN  Ok([ct |-> AesGcmEncrypt(jwk.key, iv, JSONstringify(data)),
                 iv |-> iv, kid |-> jwk.kid])

\* encryptData up to its await: throws when there is no active key.
\* (data is the JavaScript value; the envelope is what the promise yields)
encryptData(data, iv) ==
    LET jwk == getActiveKey
    IN  IF ~jwk.ok THEN jwk
        ELSE Ok([ct |-> AesGcmEncrypt(jwk.val.key, iv, JSONstringify(data)),
                 iv |-> iv, kid |-> jwk.val.kid])

\* decryptData; data.kid of null is a TypeError, and data.kid of an object
\* that is no envelope is undefined, the kid of no key.
decryptData(data) ==
    IF data = Plain(Null) THEN Err(ErrTypeError)
    ELSE IF ~IsEnvelope(data) THEN getKey("undefined")
    ELSE LET key == getKey(data.kid)
         IN  IF ~key.ok THEN key
             ELSE LET decrypted == AesGcmDecrypt(key.val, data.iv, data.ct)
                  IN  IF ~decrypted.ok THEN Err(ErrDecrypt)
                      ELSE Ok(Plain(JSONparse(decrypted.val)))

typeof(v) ==
    IF IsEnvelope(v) THEN "object"
    ELSE CASE v.js \in {"obj1", "obj2", Null} -> "object"
           [] v.js = "NaN" -> "number"
           [] OTHER -> "string"

----------------------------------------------------------------------------
(* Key codec: exportCryptoKey / importCryptoKey *)

\* The strings of the key codec are sequences of UTF-16 code units, so that
\* btoa, atob and charCodeAt are computed.  The kids it is given: two ASCII
\* ones, the empty one, one Latin-1 letter and one Cyrillic letter (written
\* here as JavaScript writes them).
ExportKids == {"a", "b", "", "\\u00E9", "\\u043A"}

CharCodes(str) ==
    CASE str = "" -> <<>>
      [] str = "a" -> <<97>>
      [] str = "b" -> <<98>>
      [] str = "\\u00E9" -> <<233>>
      [] str = "\\u043A" -> <<1082>>
      [] str = "undefined" -> <<117, 110, 100, 101, 102, 105, 110, 101, 100>>
      [] str = "oct" -> <<111, 99, 116>>
      [] str = "%%%" -> <<37, 37, 37>>

ErrInvalidCharacter == "InvalidCharacterError"
ErrSyntax == "SyntaxError"
ErrData == "DataError"

\* The base64 alphabet: the code unit of a sextet, and back (-1: none).
B64Char(n) ==
    CASE n < 26 -> 65 + n
      [] n >= 26 /\ n < 52 -> 97 + (n - 26)
      [] n >= 52 /\ n < 62 -> 48 + (n - 52)
      [] n = 62 -> 43
      [] n = 63 -> 47

B64Index(c) ==
    CASE c >= 65 /\ c <= 90 -> c - 65
      [] c >= 97 /\ c <= 122 -> c - 97 + 26
      [] c >= 48 /\ c <= 57 -> c - 48 + 52
      [] c = 43 -> 62
      [] c = 47 -> 63
      [] OTHER -> -1

\* btoa: throws on a code unit above 0xFF; three bytes give four sextets,
\* the last group is padded with "=".
btoa(str) ==
    IF \E i \in DOMAIN str : str[i] > 255 THEN Err(ErrInvalidCharacter)
    ELSE LET n == Len(str)
             byte(i) == IF i <= n THEN str[i] ELSE 0
             char(i) ==
                 LET j == (i - 1) \div 4
                     b1 == byte(3 * j + 1)
                     b2 == byte(3 * j + 2)
                     b3 == byte(3 * j + 3)
                 IN  CASE (i - 1) % 4 = 0 -> B64Char(b1 \div 4)
                       [] (i - 1) % 4 = 1 ->
                            B64Char((b1 % 4) * 16 + (b2 \div 16))
                       [] (i - 1) % 4 = 2 ->
                            IF 3 * j + 2 > n THEN 61
                            ELSE B64Char((b2 % 16) * 4 + (b3 \div 64))
                       [] (i - 1) % 4 = 3 ->
                            IF 3 * j + 3 > n THEN 61 ELSE B64Char(b3 % 64)
         IN  Ok([i \in 1..(4 * ((n + 2) \div 3)) |-> char(i)])

\* atob (forgiving-base64 decode; the inputs of the model hold no
\* whitespace): the padding is dropped, a length of 1 modulo 4 or a code
\* unit outside the alphabet throws.
atob(data) ==
    LET len == Len(data)
        pad == IF len > 0 /\ len % 4 = 0 /\ data[len] = 61
               THEN IF data[len - 1] = 61 THEN 2 ELSE 1
               ELSE 0
        sextets == [i \in 1..(len - pad) |-> B64Index(data[i])]
        m == len - pad
        byte(i) ==
            LET bit == (i - 1) * 8
                s == (bit \div 6) + 1
            IN  CASE bit % 6 = 0 -> sextets[s] * 4 + (sextets[s + 1] \div 16)
                  [] bit % 6 = 2 ->
                       (sextets[s] % 16) * 16 + (sextets[s + 1] \div 4)
                  [] bit % 6 = 4 -> (sextets[s] % 4) * 64 + sextets[s + 1]
    IN  IF m % 4 = 1 \/ \E i \in 1..m : sextets[i] = -1
        THEN Err(ErrInvalidCharacter)
        ELSE Ok([i \in 1..((m * 6) \div 8) |-> byte(i)])

\* crypto.subtle.exportKey("raw", key): the bytes of the keys of the model,
\* one of 128 and one of 256 bits.
RawKey(key) ==
    CASE key = "K1" -> [i \in 1..16 |-> (i * 37) % 256]
      [] key = "K2" -> [i \in 1..32 |-> 255 - 7 * i]

\* crypto.subtle.importKey("raw", rawKey, AES-GCM): rejects every length
\* that is not one of AES.
importKey(rawKey) ==
    IF Len(rawKey) \notin {16, 24, 32} THEN Err(ErrData)
    ELSE Ok(CHOOSE key \in Materials : RawKey(key) = rawKey)

\* JSON.stringify of a Jwk object (the members in the order of the object
\* literal; the kids of the model hold nothing JSON escapes).
JSONstringifyJwk(jwk) ==
    <<123, 34, 107, 116, 121, 34, 58, 34>> \o CharCodes(jwk.kty) \o <<34>>
      \o (IF "k" \in DOMAIN jwk
          THEN <<44, 34, 107, 34, 58, 34>> \o jwk.k \o <<34>> ELSE <<>>)
      \o <<44, 34, 107, 105, 100, 34, 58, 34>> \o CharCodes(jwk.kid)
      \o <<34, 125>>

exportCryptoKey(key, kid) ==
    LET keyBuffer == RawKey(key)
    IN  btoa(JSONstringifyJwk([kty |-> "oct", k |-> btoa(keyBuffer).val,
                               kid |-> kid]))

\* The Jwk objects whose JSON text the model hands to JSON.parse: those
\* exportCryptoKey writes, one without k, one whose k is not base64 and one
\* whose k is three bytes.
JwkObjects ==
    {[kty |-> "oct", k |-> btoa(RawKey(key)).val, kid |-> kid] :
        key \in Materials, kid \in ExportKids}
      \cup {[kty |-> "oct", kid |-> "a"],
            [kty |-> "oct", k |-> CharCodes("%%%"), kid |-> "a"],
            [kty |-> "oct", k |-> btoa(<<1, 2, 3>>).val, kid |-> "a"]}

\* JSON.parse on the texts of the model: the object a text is the
\* serialization of; any other text is not JSON.
JSONparseJwk(text) ==
    LET objects == {jwk \in JwkObjects : JSONstringifyJwk(jwk) = text}
    IN  IF objects = {} THEN Err(ErrSyntax)
        ELSE Ok(CHOOSE jwk \in objects : TRUE)

importCryptoKey(base64Key) ==
    LET decoded == atob(base64Key)
    IN  IF ~decoded.ok THEN decoded
        ELSE LET jwk == JSONparseJwk(decoded.val)
             IN  IF ~jwk.ok THEN jwk
                 ELSE LET k == IF "k" \in DOMAIN jwk.val THEN jwk.val.k
                               ELSE CharCodes("undefined")
                          rawKey == atob(k)
                      IN  IF ~rawKey.ok THEN rawKey
                          ELSE LET key == importKey(rawKey.val)
                               IN  IF ~key.ok THEN key
                                   ELSE Ok([f \in DOMAIN jwk.val \cup {"key"} |->
                                              IF f = "key" THEN key.val
                                              ELSE jwk.val[f]])

\* What exportCryptoKey returns for the keys and kids of the model.
ExportedKeys ==
    {exportCryptoKey(input[1], input[2]).val :
        input \in {pair \in Materials \X ExportKids :
                      exportCryptoKey(pair[1], pair[2]).ok}}

\* Malformed inputs of importCryptoKey: not base64, base64 of a text that is
\* not JSON, and Jwk objects without k, with k not base64, with a k of three
\* bytes.
MalformedKeys ==
    {CharCodes("%%%"), btoa(CharCodes("oct")).val}
      \cup {btoa(JSONstringifyJwk(jwk)).val :
              jwk \in {o \in JwkObjects :
                          "k" \notin DOMAIN o \/ Len(o.k) < 24}}

----------------------------------------------------------------------------
(* The server *)

NoEntry == [value |-> Plain(Null), version |-> Null, encrypted |-> FALSE]
Stored(value, encrypted) ==
    [value |-> value, version |-> "1", encrypted |-> encrypted]

\* A record an earlier session left on the server.
LegacyEnvelope ==
    [ct |-> AesGcmEncrypt("K1", "iv1", JSONstringify("obj1")),
     iv |-> "iv1", kid |-> "a"]

InitialStores ==
    { [k \in KvKeys |-> NoEntry],
      [k \in KvKeys |-> IF k = <<"foo", "bar">>
                        THEN Stored(LegacyEnvelope, TRUE) ELSE NoEntry] }

----------------------------------------------------------------------------
(* Initial state: connect() with or without a fresh KeyManager *)

----------------------------------------------------------------------------
(* connect() *)

\* A value that is undefined; the string a template literal makes of it.
Undefined == "<undefined>"
String(v) == IF v = Undefined THEN "undefined" ELSE v

\* !v, on a string or undefined
Falsy(v) == v = Undefined \/ v = ""

ErrBucketRequired == "The bucket option is required"
ErrAccessTokenRequired == "The accessToken option is required"

\* The options a caller passes, and the environment variables.
KvOptions ==
    [accessToken : {Undefined, "token"},
     bucket : {Undefined, "bucket"},
     endpoint : {Undefined, "http://localhost:8000"},
     region : {Undefined},
     ignoreEnv : BOOLEAN]

Envs ==
    [KV_ACCESS_TOKEN : {Undefined, "env-token"},
     KV_ENDPOINT : {Undefined, "http://env:8000"},
     KV_BUCKET : {Undefined, "env-bucket"},
     KV_REGION : {Undefined, "us-east-1"}]

NoEnv ==
    [KV_ACCESS_TOKEN |-> Undefined, KV_ENDPOINT |-> Undefined,
     KV_BUCKET |-> Undefined, KV_REGION |-> Undefined]

getEnv(ignoreEnv, env) == IF ignoreEnv THEN NoEnv ELSE env

\* defu on one property: the default fills in for undefined.
defu(value, default) == IF value = Undefined THEN default ELSE value

\* connect() up to the object it returns: the resolved options, or the
\* error thrown.
connect(opts, processEnv) ==
    LET env == getEnv(opts.ignoreEnv, processEnv)
        _options ==
            [accessToken |-> defu(opts.accessToken, env.KV_ACCESS_TOKEN),
             endpoint |-> defu(opts.endpoint, env.KV_ENDPOINT),
             bucket |-> defu(opts.bucket, env.KV_BUCKET),
             region |-> defu(opts.region,
                             IF env.KV_REGION = Undefined THEN "eu-central-1"
                             ELSE env.KV_REGION),
             headers |-> [ContentType |-> "application/json",
                          Accept |-> "application/json",
                          Authorization |->
                              <<"Bearer ", String(opts.accessToken)>>]]
        url == IF Falsy(_options.endpoint)
               THEN <<"https://kv.", _options.region, ".kv-db.dev/v1/",
                      _options.bucket>>
               ELSE <<_options.endpoint, "/v1/", _options.bucket>>
    IN  IF Falsy(_options.bucket) THEN Err(ErrBucketRequired)
        ELSE IF Falsy(_options.accessToken) THEN Err(ErrAccessTokenRequired)
        ELSE Ok([_options EXCEPT !.endpoint = url])

\* No client yet.
NoClient == [connected |-> FALSE]

\* The options of the tests (src/mod.test.ts:21-25).
TestOptions ==
    [accessToken |-> "token", bucket |-> "bucket",
     endpoint |-> "http://localhost:8000", region |-> Undefined,
     ignoreEnv |-> FALSE]

Init ==
    /\ options = connect(TestOptions, NoEnv).val
    /\ hasKeyManager \in BOOLEAN
    /\ keys = <<>>
    /\ activeKid = ""
    /\ exceptKvKeys = <<>>
    /\ onlyKvKeys = <<>>
    /\ store \in InitialStores
    /\ checks = <<>>
    /\ operations = <<>>
    /\ task = Idle
    /\ sent = NoRequest
    /\ result = NoResult
    /\ written = NoWrite

\* Records a server may hand out, whoever wrote them: plain values with and
\* without the encrypted flag (an object, a string, a number, null) and the
\* envelope of key a with and without it.
ListKeys == {<<"foo", "bar">>, <<"foo", "baz">>}

Records ==
    {Stored(Plain("obj1"), FALSE), Stored(LegacyEnvelope, FALSE),
     Stored(LegacyEnvelope, TRUE), Stored(Plain("obj1"), TRUE),
     Stored(Plain("str"), TRUE), Stored(Plain("NaN"), TRUE),
     Stored(Plain(Null), TRUE)}

\* A client of a server that holds two such records.
InitRecords ==
    /\ options = connect(TestOptions, NoEnv).val
    /\ hasKeyManager \in BOOLEAN
    /\ keys = <<>>
    /\ activeKid = ""
    /\ exceptKvKeys = <<>>
    /\ onlyKvKeys = <<>>
    /\ store \in [ListKeys -> Records]
    /\ checks = <<>>
    /\ operations = <<>>
    /\ task = Idle
    /\ sent = NoRequest
    /\ result = NoResult
    /\ written = NoWrite

\* Before connect(): no client, nothing sent.
InitConnect ==
    /\ options = NoClient
    /\ hasKeyManager \in BOOLEAN
    /\ keys = <<>>
    /\ activeKid = ""
    /\ exceptKvKeys = <<>>
    /\ onlyKvKeys = <<>>
    /\ store \in InitialStores
    /\ checks = <<>>
    /\ operations = <<>>
    /\ task = Idle
    /\ sent = NoRequest
    /\ result = NoResult
    /\ written = NoWrite

\* connect(): the client is made, or the call throws.
Connect(opts, processEnv) ==
    /\ options = NoClient
    /\ LET client == connect(opts, processEnv)
       IN  IF client.ok
           THEN /\ options' = client.val
                /\ result' = [op |-> "connect", ok |-> TRUE, opts |-> opts,
                              env |-> getEnv(opts.ignoreEnv, processEnv)]
           ELSE /\ options' = NoClient
                /\ result' = [op |-> "connect", ok |-> FALSE,
                              err |-> client.err]
    /\ sent' = NoRequest
    /\ UNCHANGED <<hasKeyManager, kmVars, store, atomicVars, task, written>>

----------------------------------------------------------------------------
(* KeyManager: the mutating methods *)

setActiveKey(key) == activeKid' = key.kid

\* !jwk.kid: the kid is missing or empty.
NoKid(jwk) == "kid" \notin DOMAIN jwk \/ jwk.kid = ""

\* Variant: the key is pushed before its kid is tested.
addKey_pushFirst(jwk, active) ==
    /\ hasKeyManager
    /\ Len(keys) < MaxKeys
    /\ keys' = Append(keys, jwk)
    /\ IF NoKid(jwk)
       THEN /\ result' = [op |-> "addKey", ok |-> FALSE, err |-> ErrKidRequired,
                          jwk |-> jwk, active |-> active]
            /\ UNCHANGED activeKid
       ELSE /\ IF active THEN setActiveKey(jwk) ELSE UNCHANGED activeKid
            /\ result' = [op |-> "addKey", ok |-> TRUE, jwk |-> jwk,
                          active |-> active]
    /\ UNCHANGED <<options, hasKeyManager, exceptKvKeys, onlyKvKeys, store, checks,
                   operations, task, written>>
    /\ sent' = NoRequest

addKey(jwk, active) ==
    /\ hasKeyManager
    /\ Len(keys) < MaxKeys
    /\ IF NoKid(jwk)
       THEN /\ result' = [op |-> "addKey", ok |-> FALSE, err |-> ErrKidRequired,
                          jwk |-> jwk, active |-> active]
            /\ UNCHANGED <<keys, activeKid>>
       ELSE /\ keys' = Append(keys, jwk)
            /\ IF active THEN setActiveKey(jwk) ELSE UNCHANGED activeKid
            /\ result' = [op |-> "addKey", ok |-> TRUE, jwk |-> jwk,
                          active |-> active]
    /\ UNCHANGED <<options, hasKeyManager, exceptKvKeys, onlyKvKeys, store, checks,
                   operations, task, written>>
    /\ sent' = NoRequest

\* Variant: only the first key of the kid is removed.
removeKey_first(kid) ==
    /\ hasKeyManager
    /\ keys' = LET idx == {i \in DOMAIN keys : keys[i].kid = kid}
               IN  IF idx = {} THEN keys
                   ELSE LET first == CHOOSE i \in idx : \A j \in idx : i <= j
                        IN  SubSeq(keys, 1, first - 1)
                              \o SubSeq(keys, first + 1, Len(keys))
    /\ result' = [op |-> "removeKey", ok |-> TRUE, kid |-> kid]
    /\ written' = IF written # NoWrite /\ written.kid = kid
                  THEN NoWrite ELSE written
    /\ UNCHANGED <<options, hasKeyManager, activeKid, exceptKvKeys, onlyKvKeys,
                   store, checks, operations, task>>
    /\ sent' = NoRequest

\* Variant: when the active key is removed, the first key left becomes
\* the active one.
removeKey_fallback(kid) ==
    /\ hasKeyManager
    /\ keys' = SelectSeq(keys, LAMBDA key : key.kid # kid)
    /\ activeKid' = IF activeKid = kid
                    THEN (IF keys' = <<>> THEN "" ELSE keys'[1].kid)
                    ELSE activeKid
    /\ result' = [op |-> "removeKey", ok |-> TRUE, kid |-> kid]
    /\ written' = IF written # NoWrite /\ written.kid = kid
                  THEN NoWrite ELSE written
    /\ UNCHANGED <<options, hasKeyManager, exceptKvKeys, onlyKvKeys, store,
                   checks, operations, task>>
    /\ sent' = NoRequest

removeKey(kid) ==
    /\ hasKeyManager
    /\ keys' = SelectSeq(keys, LAMBDA key : key.kid # kid)
    /\ result' = [op |-> "removeKey", ok |-> TRUE, kid |-> kid]
    /\ written' = IF written # NoWrite /\ written.kid = kid
                  THEN NoWrite ELSE written
    /\ UNCHANGED <<options, hasKeyManager, activeKid, exceptKvKeys, onlyKvKeys, store,
                   checks, operations, task>>
    /\ sent' = NoRequest

addExceptKvKeys(exceptKeys) ==
    /\ hasKeyManager
    /\ Len(exceptKvKeys) + Len(exceptKeys) <= MaxPatterns
    /\ exceptKvKeys' = exceptKvKeys \o exceptKeys
    /\ result' = [op |-> "addExceptKvKeys", ok |-> TRUE]
    /\ written' = NoWrite
    /\ UNCHANGED <<options, hasKeyManager, keys, activeKid, onlyKvKeys, store, checks,
                   operations, task>>
    /\ sent' = NoRequest

\* Variant: a pattern registered as only is taken off the except list.
addOnlyKvKeys_moves(onlyKeys) ==
    /\ hasKeyManager
    /\ Len(onlyKvKeys) + Len(onlyKeys) <= MaxPatterns
    /\ onlyKvKeys' = onlyKvKeys \o onlyKeys
    /\ exceptKvKeys' = SelectSeq(exceptKvKeys,
                          LAMBDA p : \A i \in DOMAIN onlyKeys : onlyKeys[i] # p)
    /\ result' = [op |-> "addOnlyKvKeys", ok |-> TRUE]
    /\ written' = NoWrite
    /\ UNCHANGED <<options, hasKeyManager, keys, activeKid, store, checks,
                   operations, task>>
    /\ sent' = NoRequest

addOnlyKvKeys(onlyKeys) ==
    /\ hasKeyManager
    /\ Len(onlyKvKeys) + Len(onlyKeys) <= MaxPatterns
    /\ onlyKvKeys' = onlyKvKeys \o onlyKeys
    /\ result' = [op |-> "addOnlyKvKeys", ok |-> TRUE]
    /\ written' = NoWrite
    /\ UNCHANGED <<options, hasKeyManager, keys, activeKid, exceptKvKeys, store, checks,
                   operations, task>>
    /\ sent' = NoRequest

\* addKey with a string, up to its await of importCryptoKey: nothing of the
\* key manager is read or written yet.
addKey_string(base64Key, active) ==
    /\ hasKeyManager
    /\ task = Idle
    /\ task' = [op |-> "addKey", jwk |-> base64Key, active |-> active]
    /\ result' = NoResult
    /\ sent' = NoRequest
    /\ UNCHANGED <<options, hasKeyManager, kmVars, store, atomicVars, written>>

\* Variant: the imported key is pushed, and made active only by a later
\* call.
addKey_imported_pushOnly ==
    /\ task.op = "addKey"
    /\ Len(keys) < MaxKeys
    /\ LET imported == importCryptoKey(task.jwk)
       IN  IF ~imported.ok
           THEN /\ result' = [op |-> "addKey", ok |-> FALSE,
                              err |-> imported.err, base64Key |-> task.jwk,
                              active |-> task.active]
                /\ UNCHANGED <<keys, activeKid>>
           ELSE /\ keys' = Append(keys, imported.val)
                /\ UNCHANGED activeKid
                /\ result' = [op |-> "addKey", ok |-> TRUE,
                              jwk |-> imported.val, active |-> task.active]
    /\ task' = Idle
    /\ sent' = NoRequest
    /\ UNCHANGED <<options, hasKeyManager, exceptKvKeys, onlyKvKeys, store, atomicVars,
                   written>>

\* addKey with a string, after the await: the import has thrown, or the
\* imported key goes the way of every key.
addKey_imported ==
    /\ task.op = "addKey"
    /\ Len(keys) < MaxKeys
    /\ LET imported == importCryptoKey(task.jwk)
       IN  IF ~imported.ok
           THEN /\ result' = [op |-> "addKey", ok |-> FALSE,
                              err |-> imported.err, base64Key |-> task.jwk,
                              active |-> task.active]
                /\ UNCHANGED <<keys, activeKid>>
           ELSE LET jwk == imported.val
                IN  IF NoKid(jwk)
                    THEN /\ result' = [op |-> "addKey", ok |-> FALSE,
                                       err |-> ErrKidRequired, jwk |-> jwk,
                                       active |-> task.active]
                         /\ UNCHANGED <<keys, activeKid>>
                    ELSE /\ keys' = Append(keys, jwk)
                         /\ IF task.active THEN setActiveKey(jwk)
                            ELSE UNCHANGED activeKid
                         /\ result' = [op |-> "addKey", ok |-> TRUE,
                                       jwk |-> jwk, active |-> task.active]
    /\ task' = Idle
    /\ sent' = NoRequest
    /\ UNCHANGED <<options, hasKeyManager, exceptKvKeys, onlyKvKeys, store, atomicVars,
                   written>>

----------------------------------------------------------------------------
(* The key codec, called by the application *)

ExportCryptoKey(key, kid) ==
    /\ LET exported == exportCryptoKey(key, kid)
       IN  result' = IF exported.ok
                     THEN [op |-> "exportCryptoKey", ok |-> TRUE, key |-> key,
                           kid |-> kid, exported |-> exported.val]
                     ELSE [op |-> "exportCryptoKey", ok |-> FALSE, key |-> key,
                           kid |-> kid, err |-> exported.err]
    /\ sent' = NoRequest
    /\ UNCHANGED <<options, hasKeyManager, kmVars, store, atomicVars, task, written>>

ImportCryptoKey(base64Key) ==
    /\ LET imported == importCryptoKey(base64Key)
       IN  result' = IF imported.ok
                     THEN [op |-> "importCryptoKey", ok |-> TRUE,
                           base64Key |-> base64Key, jwk |-> imported.val]
                     ELSE [op |-> "importCryptoKey", ok |-> FALSE,
                           base64Key |-> base64Key, err |-> imported.err]
    /\ sent' = NoRequest
    /\ UNCHANGED <<options, hasKeyManager, kmVars, store, atomicVars, task, written>>

----------------------------------------------------------------------------
(* connect(): get and set *)

\* Variant: the envelope is handed to decryptData without asking the key
\* manager first.
GetOutcome_noGate(key) ==
    LET data == store[key]
    IN  IF data.encrypted
        THEN IF typeof(data.value) # "object" THEN Err(ErrNotObject)
             ELSE LET value == decryptData(data.value)
                  IN  IF ~value.ok THEN value
                      ELSE Ok([key |-> key, value |-> value.val,
                               version |-> data.version,
                               encrypted |-> data.encrypted])
        ELSE Ok([key |-> key, value |-> data.value, version |-> data.version,
                 encrypted |-> data.encrypted])

\* What get(key) does with the record the server returns.
\* Variant: a value that looks like an envelope is decrypted, flagged or
\* not.
GetOutcome_sniff(key) ==
    LET data == store[key]
    IN  IF data.encrypted \/ (IsEnvelope(data.value) /\ kmShouldEncrypt(key))
        THEN IF ~kmShouldEncrypt(key) THEN Err(ErrNoKeyManager)
             ELSE IF typeof(data.value) # "object" THEN Err(ErrNotObject)
             ELSE LET value == decryptData(data.value)
                  IN  IF ~value.ok THEN value
                      ELSE Ok([key |-> key, value |-> value.val,
                               version |-> data.version,
                               encrypted |-> data.encrypted])
        ELSE Ok([key |-> key, value |-> data.value, version |-> data.version,
                 encrypted |-> data.encrypted])

GetOutcome(key) ==
    LET data == store[key]
    IN  IF data.encrypted
        THEN IF ~kmShouldEncrypt(key) THEN Err(ErrNoKeyManager)
             ELSE IF typeof(data.value) # "object" THEN Err(ErrNotObject)
             ELSE LET value == decryptData(data.value)
                  IN  IF ~value.ok THEN value
                      ELSE Ok([key |-> key, value |-> value.val,
                               version |-> data.version,
                               encrypted |-> data.encrypted])
        ELSE Ok([key |-> key, value |-> data.value, version |-> data.version,
                 encrypted |-> data.encrypted])

\* get(): nothing of the client is read before the response arrives, so the
\* request, the response and the continuation are one step.
Get(key) ==
    /\ task = Idle
    /\ sent' = [method |-> "GET", key |-> key, headers |-> options.headers]
    /\ LET out == GetOutcome(key)
       IN  result' = IF out.ok
                     THEN [op |-> "get", ok |-> TRUE, key |-> key,
                           entry |-> out.val]
                     ELSE [op |-> "get", ok |-> FALSE, key |-> key,
                           err |-> out.err]
    /\ UNCHANGED <<options, hasKeyManager, kmVars, store, atomicVars, task, written>>

\* Variant: set() returns the server's echo also for an encrypted record.
Put_echo(key, value, body, encrypted, decided) ==
    /\ sent' = [method |-> "PUT", key |-> key, value |-> body,
                encrypted |-> encrypted, plain |-> Plain(value),
                decided |-> decided, headers |-> options.headers]
    /\ store' = [store EXCEPT ![key] = Stored(body, encrypted)]
    /\ result' = [op |-> "set", ok |-> TRUE, key |-> key,
                  entry |-> [key |-> key, value |-> body, version |-> "1",
                             encrypted |-> encrypted]]

\* axios.put and the rest of set(): the server keeps the record and echoes
\* it; nothing of the key manager is read after the request is built.
\* (decided records what shouldEncrypt answered when set() was invoked)
Put(key, value, body, encrypted, decided) ==
    /\ sent' = [method |-> "PUT", key |-> key, value |-> body,
                encrypted |-> encrypted, plain |-> Plain(value),
                decided |-> decided, headers |-> options.headers]
    /\ store' = [store EXCEPT ![key] = Stored(body, encrypted)]
    /\ LET data == [key |-> key, value |-> body, version |-> "1",
                    encrypted |-> encrypted]
       IN  result' = [op |-> "set", ok |-> TRUE, key |-> key,
                      entry |-> IF data.encrypted
                                THEN [key |-> key, value |-> Plain(value),
                                      version |-> data.version,
                                      encrypted |-> TRUE]
                                ELSE data]

\* Variant: when the encryption throws, the value is sent as it is.
Set_fallback(key, value) ==
    /\ task = Idle
    /\ LET decided == kmShouldEncrypt(key)
       IN  IF decided /\ getActiveKey.ok
           THEN \E iv \in IVs :
                  /\ task' = [op |-> "set", key |-> key, value |-> value,
                              encryptedValue |-> encryptData(value, iv).val,
                              decided |-> decided]
                  /\ result' = NoResult
                  /\ written' = [key |-> key, value |-> value,
                                 kid |-> encryptData(value, iv).val.kid]
                  /\ sent' = NoRequest
                  /\ UNCHANGED store
           ELSE /\ Put(key, value, Plain(value), kmShouldEncrypt(key), decided)
                /\ written' = NoWrite
                /\ UNCHANGED task
    /\ UNCHANGED <<options, hasKeyManager, kmVars, atomicVars>>

\* set() up to its first await (the encryption), or to its end when the
\* value is not to be encrypted.
Set(key, value) ==
    /\ task = Idle
    /\ LET decided == kmShouldEncrypt(key)
       IN  IF decided
           THEN \E iv \in IVs :
                  LET encryptedValue == encryptData(value, iv)
                  IN  IF ~encryptedValue.ok
                      THEN /\ result' = [op |-> "set", ok |-> FALSE,
                                         key |-> key,
                                         err |-> encryptedValue.err]
                           /\ written' = NoWrite
                           /\ sent' = NoRequest
                           /\ UNCHANGED <<task, store>>
                      ELSE /\ task' = [op |-> "set", key |-> key,
                                       value |-> value,
                                       encryptedValue |-> encryptedValue.val,
                                       decided |-> decided]
                           /\ result' = NoResult
                           /\ written' = [key |-> key, value |-> value,
                                          kid |-> encryptedValue.val.kid]
                           /\ sent' = NoRequest
                           /\ UNCHANGED store
           ELSE /\ Put(key, value, Plain(value), kmShouldEncrypt(key), decided)
                /\ written' = NoWrite
                /\ UNCHANGED task
    /\ UNCHANGED <<options, hasKeyManager, kmVars, atomicVars>>

\* Variant: the request carries value where it should carry encryptedValue.
SetSend_plain ==
    /\ task.op = "set"
    /\ Put(task.key, task.value, Plain(task.value),
           kmShouldEncrypt(task.key), task.decided)
    /\ task' = Idle
    /\ UNCHANGED <<options, hasKeyManager, kmVars, atomicVars, written>>

\* set() after the encryption: the flag is evaluated anew.
SetSend ==
    /\ task.op = "set"
    /\ Put(task.key, task.value, task.encryptedValue,
           kmShouldEncrypt(task.key), task.decided)
    /\ task' = Idle
    /\ UNCHANGED <<options, hasKeyManager, kmVars, atomicVars, written>>

----------------------------------------------------------------------------
(* connect(): list *)

\* The selectors list() is called with: everything, or a prefix.
ListSelectors == {[prefix |-> <<>>], [prefix |-> <<"foo">>],
                  [prefix |-> <<"bar">>]}

\* The server's answer to a list request: the records it holds under the
\* prefix, in an order of its choosing.
HasPrefix(prefix, key) ==
    /\ Len(prefix) <= Len(key)
    /\ \A n \in DOMAIN prefix : prefix[n] = key[n]

ListResponses(selector) ==
    LET present == {k \in DOMAIN store : /\ store[k].version # Null
                                         /\ HasPrefix(selector.prefix, k)}
        orders == {f \in [1..Cardinality(present) -> present] :
                      \A i, j \in DOMAIN f : f[i] = f[j] => i = j}
    IN  {[i \in DOMAIN f |-> [key |-> f[i], value |-> store[f[i]].value,
                              version |-> store[f[i]].version,
                              encrypted |-> store[f[i]].encrypted]]
         : f \in orders}

\* list(): the request and the response; the entries are processed when the
\* caller iterates.
list(selector) ==
    /\ task = Idle
    /\ sent' = [method |-> "GET", params |-> selector,
                headers |-> options.headers]
    /\ \E data \in ListResponses(selector) :
          task' = [op |-> "list", data |-> data, index |-> 1]
    /\ result' = NoResult
    /\ UNCHANGED <<options, hasKeyManager, kmVars, store, atomicVars, written>>

\* What the generator does with one entry of the response.
ListOutcome(entry) ==
    IF entry.encrypted
    THEN IF ~kmShouldEncrypt(entry.key) THEN Err(ErrNoKeyManager)
         ELSE IF typeof(entry.value) # "object" THEN Err(ErrNotObject)
         ELSE LET decryptedValue == decryptData(entry.value)
              IN  IF ~decryptedValue.ok THEN decryptedValue
                  ELSE Ok([entry EXCEPT !.value = decryptedValue.val])
    ELSE Ok(entry)

\* Variant: an entry that cannot be decrypted is passed over.
listNext_skip ==
    /\ task.op = "list"
    /\ sent' = NoRequest
    /\ IF task.data = <<>>
       THEN /\ result' = [op |-> "list.return", ok |-> TRUE]
            /\ task' = Idle
       ELSE LET entry == Head(task.data)
                out == ListOutcome(entry)
            IN  /\ result' = IF out.ok
                             THEN [op |-> "list", ok |-> TRUE,
                                   key |-> entry.key, entry |-> out.val,
                                   index |-> task.index]
                             ELSE [op |-> "list", ok |-> FALSE,
                                   key |-> entry.key, err |-> out.err,
                                   index |-> task.index]
                /\ task' = [task EXCEPT !.data = Tail(@), !.index = @ + 1]
    /\ UNCHANGED <<options, hasKeyManager, kmVars, store, atomicVars, written>>

\* One step of the iteration (index counts the entries of the response the
\* loop has come to): the next entry is yielded, or the generator throws,
\* or it returns at the end of the response.
listNext ==
    /\ task.op = "list"
    /\ sent' = NoRequest
    /\ IF task.data = <<>>
       THEN /\ result' = [op |-> "list.return", ok |-> TRUE]
            /\ task' = Idle
       ELSE LET entry == Head(task.data)
                out == ListOutcome(entry)
            IN  IF out.ok
                THEN /\ result' = [op |-> "list", ok |-> TRUE,
                                   key |-> entry.key, entry |-> out.val,
                                   index |-> task.index]
                     /\ task' = [task EXCEPT !.data = Tail(@),
                                             !.index = @ + 1]
                ELSE /\ result' = [op |-> "list", ok |-> FALSE,
                                   key |-> entry.key, err |-> out.err,
                                   index |-> task.index]
                     /\ task' = Idle
    /\ UNCHANGED <<options, hasKeyManager, kmVars, store, atomicVars, written>>

----------------------------------------------------------------------------
(* AtomicOperation *)

\* The keys atomic operations name; the server's record of a key outside
\* KvKeys is not read back by the model.
AtomicKeys == KvKeys \cup {<<"bar", "baz">>}
AtomicValues == {"obj1"}
\* The check of the examples: version null, "no value".
Versions == {Null}

AtomicOperation_check(c) ==
    /\ Len(checks) < MaxChecks
    /\ checks' = Append(checks, c)
    /\ result' = [op |-> "check", ok |-> TRUE]
    /\ sent' = NoRequest
    /\ UNCHANGED <<options, hasKeyManager, kmVars, store, operations, task, written>>

\* Variant: the operation is put in front of the list (unshift).
AtomicOperation_set_unshift(key, value) ==
    /\ Len(operations) < MaxOps
    /\ operations' = <<[type |-> "set", key |-> key, value |-> Plain(value),
                        encrypted |-> FALSE]>> \o operations
    /\ result' = [op |-> "atomic.set", ok |-> TRUE]
    /\ sent' = NoRequest
    /\ UNCHANGED <<options, hasKeyManager, kmVars, store, checks, task, written>>

AtomicOperation_set(key, value) ==
    /\ Len(operations) < MaxOps
    /\ operations' = Append(operations, [type |-> "set", key |-> key,
                                         value |-> Plain(value),
                                         encrypted |-> FALSE])
    /\ result' = [op |-> "atomic.set", ok |-> TRUE]
    /\ sent' = NoRequest
    /\ UNCHANGED <<options, hasKeyManager, kmVars, store, checks, task, written>>

AtomicOperation_delete(key) ==
    /\ Len(operations) < MaxOps
    /\ operations' = Append(operations, [type |-> "delete", key |-> key])
    /\ result' = [op |-> "atomic.delete", ok |-> TRUE]
    /\ sent' = NoRequest
    /\ UNCHANGED <<options, hasKeyManager, kmVars, store, checks, task, written>>

\* Variant: the callback asks whether encryption is available, not whether
\* the operation's key is to be encrypted.
toEncrypt_anyKey(operation) ==
    /\ operation.type = "set"
    /\ ~operation.encrypted
    /\ hasKeyManager /\ isAvailable

\* The callback of this.operations.map, up to its await.
toEncrypt(operation) ==
    /\ operation.type = "set"
    /\ ~operation.encrypted
    /\ kmShouldEncrypt(operation.key)

operationsToSend(ivs) ==
    [i \in DOMAIN operations |->
        IF toEncrypt(operations[i])
        THEN [type |-> "set", key |-> operations[i].key,
              value |-> encryptData(operations[i].value.js, ivs[i]).val,
              encrypted |-> TRUE]
        ELSE operations[i]]

\* Variant: the callbacks write the envelopes into the builder's own
\* operations.
commit_inPlace ==
    /\ task = Idle
    /\ IF \E i \in DOMAIN operations :
            toEncrypt(operations[i]) /\ ~getActiveKey.ok
       THEN /\ result' = [op |-> "commit", ok |-> FALSE, err |-> ErrActiveKey]
            /\ UNCHANGED <<task, operations>>
       ELSE /\ \E ivs \in [DOMAIN operations -> IVs] :
                 /\ task' = [op |-> "commit",
                             operationsToSend |-> operationsToSend(ivs),
                             source |-> operations,
                             decided |-> [i \in DOMAIN operations |->
                                            kmShouldEncrypt(operations[i].key)]]
                 /\ operations' = operationsToSend(ivs)
            /\ result' = NoResult
    /\ sent' = NoRequest
    /\ UNCHANGED <<options, hasKeyManager, kmVars, store, checks, written>>

\* commit() up to its await of Promise.all: every callback has run up to
\* its own await, so every decision and every key lookup is made here.
commit ==
    /\ task = Idle
    /\ IF \E i \in DOMAIN operations :
            toEncrypt(operations[i]) /\ ~getActiveKey.ok
       THEN /\ result' = [op |-> "commit", ok |-> FALSE, err |-> ErrActiveKey]
            /\ UNCHANGED task
       ELSE /\ \E ivs \in [DOMAIN operations -> IVs] :
                 task' = [op |-> "commit",
                          operationsToSend |-> operationsToSend(ivs),
                          source |-> operations,
                          decided |-> [i \in DOMAIN operations |->
                                         kmShouldEncrypt(operations[i].key)]]
            /\ result' = NoResult
    /\ sent' = NoRequest
    /\ UNCHANGED <<options, hasKeyManager, kmVars, store, atomicVars, written>>

\* The server's atomic endpoint: every check must name the version held.
ChecksPass(cs) == \A i \in DOMAIN cs : store[cs[i].key].version = cs[i].version

RECURSIVE Apply(_, _)
Apply(st, ops) ==
    IF ops = <<>> THEN st
    ELSE LET o == Head(ops)
             next == IF o.key \notin DOMAIN st THEN st
                     ELSE IF o.type = "set"
                          THEN [st EXCEPT ![o.key] = Stored(o.value, o.encrypted)]
                          ELSE [st EXCEPT ![o.key] = NoEntry]
         IN  Apply(next, Tail(ops))

\* commit() after Promise.all: axios.post and the server's answer.
commitPost ==
    /\ task.op = "commit"
    /\ sent' = [method |-> "POST", checks |-> checks,
                operations |-> task.operationsToSend,
                source |-> task.source, decided |-> task.decided,
                headers |-> options.headers]
    /\ LET ok == ChecksPass(checks)
       IN  /\ store' = IF ok THEN Apply(store, task.operationsToSend) ELSE store
           /\ result' = [op |-> "commit", ok |-> TRUE,
                         data |-> [ok |-> ok,
                                   version |-> IF ok THEN "1" ELSE Null]]
    /\ task' = Idle
    /\ written' = NoWrite
    /\ UNCHANGED <<options, hasKeyManager, kmVars, atomicVars>>

----------------------------------------------------------------------------
(* Specifications *)

\* The client reading and writing single records under every key-manager
\* call; two patterns, one that matches the record's key and one that does
\* not.
ClientPatterns == {<<"foo", "*">>, <<"bar", "baz">>}

Next ==
    \/ \E jwk \in JwtCryptoKeys, active \in BOOLEAN : addKey(jwk, active)
    \/ \E kid \in Kids : removeKey(kid)
    \/ \E p \in ClientPatterns : addExceptKvKeys(<<p>>)
    \/ \E p \in ClientPatterns : addOnlyKvKeys(<<p>>)
    \/ \E key \in KvKeys : Get(key)
    \/ \E key \in KvKeys, value \in Values : Set(key, value)
    \/ SetSend

Spec == Init /\ [][Next]_vars

\* The client building and committing atomic operations, and reading the
\* result back; the key manager is given one
\* key per kid and one except pattern, which leaves <<"foo", "bar">> to be
\* encrypted and <<"bar", "baz">> not.
AtomicJwtCryptoKeys == {jwk \in JwtCryptoKeys : jwk.key = "K1"}

NextAtomic ==
    \/ \E jwk \in AtomicJwtCryptoKeys, active \in BOOLEAN : addKey(jwk, active)
    \/ \E kid \in Kids : removeKey(kid)
    \/ addExceptKvKeys(<<(<<"bar", "baz">>)>>)
    \/ \E key \in KvKeys : Get(key)
    \/ \E key \in KvKeys, version \in Versions :
          AtomicOperation_check([key |-> key, version |-> version])
    \/ \E key \in AtomicKeys, value \in AtomicValues :
          AtomicOperation_set(key, value)
    \/ \E key \in KvKeys : AtomicOperation_delete(key)
    \/ commit
    \/ commitPost

SpecAtomic == Init /\ [][NextAtomic]_vars

\* Every write of the client: set() and commit(), under the same key
\* manager calls.
NextWrite ==
    \/ \E jwk \in AtomicJwtCryptoKeys, active \in BOOLEAN : addKey(jwk, active)
    \/ \E kid \in Kids : removeKey(kid)
    \/ addExceptKvKeys(<<(<<"bar", "baz">>)>>)
    \/ \E key \in KvKeys, value \in AtomicValues : Set(key, value)
    \/ SetSend
    \/ \E key \in AtomicKeys, value \in AtomicValues :
          AtomicOperation_set(key, value)
    \/ \E key \in KvKeys : AtomicOperation_delete(key)
    \/ commit
    \/ commitPost

SpecWrite == Init /\ [][NextWrite]_vars

\* The writes that encrypt, under a key manager whose keys differ in kid
\* and in material and whose active key is rotated while a write is in
\* flight.
NextRotate ==
    \/ \E jwk \in JwtCryptoKeys, active \in BOOLEAN : addKey(jwk, active)
    \/ \E kid \in Kids : removeKey(kid)
    \/ \E key \in KvKeys, value \in AtomicValues : Set(key, value)
    \/ SetSend
    \/ \E key \in AtomicKeys, value \in AtomicValues :
          AtomicOperation_set(key, value)
    \/ commit
    \/ commitPost

SpecRotate == Init /\ [][NextRotate]_vars

\* The key manager alone, under the patterns of the tests.
NextKeyManager ==
    \/ \E jwk \in JwtCryptoKeys, active \in BOOLEAN : addKey(jwk, active)
    \/ \E kid \in Kids : removeKey(kid)
    \/ \E p \in Patterns : addExceptKvKeys(<<p>>)
    \/ \E p \in Patterns : addOnlyKvKeys(<<p>>)

SpecKeyManager == Init /\ [][NextKeyManager]_vars

\* What the caller is handed: the entries of set(), get() and of the
\* iteration of list(), under the key-manager calls that decide encryption.
NextEntries ==
    \/ \E jwk \in JwtCryptoKeys, active \in BOOLEAN : addKey(jwk, active)
    \/ \E kid \in Kids : removeKey(kid)
    \/ \E p \in ClientPatterns : addExceptKvKeys(<<p>>)
    \/ \E key \in KvKeys : Get(key)
    \/ \E key \in KvKeys, value \in Values : Set(key, value)
    \/ SetSend
    \/ \E selector \in ListSelectors : list(selector)
    \/ listNext

SpecEntries == Init /\ [][NextEntries]_vars

\* Key strings given to addKey: two good ones, one whose kid is empty and
\* one string that is not base64.
AddKeyStrings ==
    {exportCryptoKey("K1", "a").val, exportCryptoKey("K2", "b").val,
     exportCryptoKey("K1", "").val, CharCodes("%%%")}

\* Key objects given to addKey: one without kid, one with an empty kid.
AddKeyObjects == {[kid |-> "a", key |-> "K2"], [kid |-> "", key |-> "K2"],
                  [key |-> "K1"]}

\* The key codec, next to a key manager that is fed and emptied.
NextCryptoKeys ==
    \/ \E key \in Materials, kid \in ExportKids : ExportCryptoKey(key, kid)
    \/ \E base64Key \in ExportedKeys \cup MalformedKeys :
          ImportCryptoKey(base64Key)
    \/ \E jwk \in AddKeyObjects, active \in BOOLEAN : addKey(jwk, active)
    \/ \E kid \in Kids : removeKey(kid)

SpecCryptoKeys == Init /\ [][NextCryptoKeys]_vars

\* Every way of adding a key, under the other calls on the key manager.
NextAddKey ==
    \/ \E jwk \in AddKeyObjects, active \in BOOLEAN : addKey(jwk, active)
    \/ \E base64Key \in AddKeyStrings, active \in BOOLEAN :
          addKey_string(base64Key, active)
    \/ addKey_imported
    \/ \E kid \in Kids : removeKey(kid)
    \/ addExceptKvKeys(<<(<<"foo", "*">>)>>)
    \/ addOnlyKvKeys(<<(<<"bar", "baz">>)>>)

SpecAddKey == Init /\ [][NextAddKey]_vars

\* The reads, get() and the iteration of list(), of records of every kind,
\* under a key manager that gains and loses the key of the envelopes.
NextRecords ==
    \/ \E active \in BOOLEAN : addKey([kid |-> "a", key |-> "K1"], active)
    \/ removeKey("a")
    \/ addExceptKvKeys(<<(<<"foo", "bar">>)>>)
    \/ \E key \in ListKeys : Get(key)
    \/ list([prefix |-> <<"foo">>])
    \/ listNext

SpecRecords == InitRecords /\ [][NextRecords]_vars

\* From connect() on: the requests of a client, whatever options and
\* environment it was made from, with and without keys to encrypt with.
NextConnect ==
    \/ \E opts \in KvOptions, processEnv \in Envs : Connect(opts, processEnv)
    \/ \E jwk \in AtomicJwtCryptoKeys : addKey(jwk, TRUE)
    \/ options # NoClient /\ \E key \in KvKeys : Get(key)
    \/ options # NoClient /\ \E key \in KvKeys, value \in Values : Set(key, value)
    \/ options # NoClient /\ SetSend
    \/ options # NoClient /\ \E selector \in ListSelectors : list(selector)
    \/ options # NoClient /\ listNext
    \/ options # NoClient /\ \E key \in AtomicKeys, value \in AtomicValues :
          AtomicOperation_set(key, value)
    \/ options # NoClient /\ commit
    \/ options # NoClient /\ commitPost

SpecConnect == InitConnect /\ [][NextConnect]_vars

----------------------------------------------------------------------------
(* Claims *)

\* The record holds an envelope that the registered key of its kid opens.
Decryptable(rec) ==
    /\ rec.encrypted
    /\ IsEnvelope(rec.value)
    /\ getKey(rec.value.kid).ok
    /\ AesGcmDecrypt(getKey(rec.value.kid).val, rec.value.iv, rec.value.ct).ok

\* get() has just returned the plaintext sealed in the record of its key.
GotPlaintext ==
    /\ result.ok
    /\ result.entry.value = Plain(JSONparse(store[result.key].value.ct.pt))

\* C1: get() decrypts and returns every record flagged encrypted whose kid
\* is registered, whatever the only and except lists say about its key.
C1_ReadsIgnorePolicy ==
    (result.op = "get" /\ hasKeyManager /\ isAvailable
        /\ Decryptable(store[result.key]))
    => GotPlaintext

\* C2: a key manager that holds keys but has no active key still decrypts:
\* get() of an encrypted record whose kid is registered returns the value.
C2_DecryptsWithoutActiveKey ==
    (result.op = "get" /\ hasKeyManager /\ Len(keys) > 0 /\ activeKid = ""
        /\ Decryptable(store[result.key]))
    => GotPlaintext

\* C3: removing the key that is active unsets the active key, so that
\* isAvailable() is false afterwards, also when other keys remain.
C3_RemoveActiveUnsets ==
    [][(result'.op = "removeKey" /\ result'.kid = activeKid
          /\ FindKid(activeKid) # <<>>)
       => ~isAvailable']_vars

\* C4: with a key manager that has no usable active key (never set, or
\* removed), set() does not fail: it sends the value unencrypted with
\* encrypted=false.
C4_NoActiveKeySendsPlain ==
    [][(task = Idle /\ hasKeyManager /\ ~getActiveKey.ok
          /\ (task'.op = "set" \/ result'.op = "set"))
       => (/\ result'.op = "set" /\ result'.ok
           /\ sent'.method = "PUT"
           /\ ~IsEnvelope(sent'.value) /\ ~sent'.encrypted)]_vars

\* C5: after a successful addKey(m, true), getActiveKey() returns m, for
\* every prior content of the registry.
C5_LastActiveKeyWins ==
    (result.op = "addKey" /\ result.ok /\ result.active)
    => getActiveKey = Ok(result.jwk)

\* C6: every PUT of set() carries encrypted=true exactly when the value it
\* carries is an envelope, in every interleaving with key-manager calls.
C6_FlagMatchesValue ==
    sent.method = "PUT" => (sent.encrypted <=> IsEnvelope(sent.value))

\* What the server can read in a request: plain values, and the iv and kid
\* of an envelope; the ciphertext is opaque to it.
Readable(value) ==
    IF IsEnvelope(value) THEN {value.iv, value.kid} ELSE {value.js}

RequestAtoms ==
    CASE sent.method = "PUT" -> Readable(sent.value)
      [] sent.method = "POST" ->
            UNION {IF "value" \in DOMAIN sent.operations[i]
                   THEN Readable(sent.operations[i].value) ELSE {}
                   : i \in DOMAIN sent.operations}
      [] OTHER -> {}

\* C7: when shouldEncrypt(key) is true as set() or commit() is invoked, the
\* request carries an envelope in place of the plaintext value; and no
\* request carries the material of a registered key.
C7_NoPlaintextNoKey ==
    /\ (sent.method = "PUT" /\ sent.decided)
          => (IsEnvelope(sent.value) /\ sent.value # sent.plain)
    /\ sent.method = "POST"
          => \A i \in DOMAIN sent.operations :
                (sent.source[i].type = "set" /\ sent.decided[i])
                => /\ IsEnvelope(sent.operations[i].value)
                   /\ sent.operations[i].value # sent.source[i].value
    /\ \A i \in DOMAIN keys : keys[i].key \notin RequestAtoms

C7_Witness ==
    /\ sent.method = "POST"
    /\ \E i \in DOMAIN sent.operations :
          /\ sent.source[i].type = "set" /\ sent.decided[i]
          /\ IsEnvelope(sent.operations[i].value)
    /\ \E i \in DOMAIN sent.operations :
          /\ sent.source[i].type = "set" /\ ~sent.decided[i]
          /\ sent.operations[i].value = sent.source[i].value

\* C8: a value written by set() under active key A is returned as the
\* original plaintext by every later get(), after any further addKey calls
\* (and removals of other keys), as long as A is not removed.
C8_ReadableAcrossRotation ==
    (result.op = "get" /\ written # NoWrite /\ result.key = written.key)
    => (result.ok /\ result.entry.value = Plain(written.value))

C8_Witness ==
    /\ result.op = "get" /\ written # NoWrite /\ result.key = written.key
    /\ activeKid # written.kid
    /\ Len(keys) = 2
    /\ result.ok

\* C9: commit() sends each set operation whose key satisfies shouldEncrypt
\* with an envelope of its value and encrypted=true, and every other set
\* operation, every delete operation and every check unchanged, in the
\* order they were added.
C9_CommitAppliesPolicy ==
    sent.method = "POST" =>
        /\ sent.checks = checks
        /\ DOMAIN sent.operations = DOMAIN sent.source
        /\ \A i \in DOMAIN sent.source :
              IF sent.source[i].type = "set" /\ sent.decided[i]
              THEN /\ sent.operations[i].type = "set"
                   /\ sent.operations[i].key = sent.source[i].key
                   /\ sent.operations[i].encrypted
                   /\ IsEnvelope(sent.operations[i].value)
                   /\ sent.operations[i].value.ct.pt
                        = JSONstringify(sent.source[i].value.js)
              ELSE sent.operations[i] = sent.source[i]

C9_Witness ==
    /\ sent.method = "POST"
    /\ Len(sent.checks) > 0
    /\ \E i, j \in DOMAIN sent.source :
          /\ sent.source[i].type = "set" /\ sent.decided[i]
          /\ sent.operations[i].encrypted
          /\ sent.source[j].type = "set" /\ ~sent.decided[j]
          /\ sent.operations[j] = sent.source[j]

\* C10: shouldEncrypt(key) is isAvailable() and (the only list is empty or
\* the key matches one of its patterns) and the key matches no except
\* pattern, for every registry state and every key.
C10_ShouldEncryptFormula ==
    \A key \in AllKvKeys :
        shouldEncrypt(key) <=>
            /\ isAvailable
            /\ \/ onlyKvKeys = <<>>
               \/ \E i \in DOMAIN onlyKvKeys : matchKeyPath(onlyKvKeys[i], key)
            /\ \A i \in DOMAIN exceptKvKeys : ~matchKeyPath(exceptKvKeys[i], key)

C10_Witness ==
    /\ isAvailable
    /\ onlyKvKeys # <<>> /\ exceptKvKeys # <<>>
    /\ \E key \in AllKvKeys : shouldEncrypt(key)
    /\ \E key \in AllKvKeys :
          /\ \E i \in DOMAIN onlyKvKeys : matchKeyPath(onlyKvKeys[i], key)
          /\ ~shouldEncrypt(key)

\* The patterns the key manager holds, of both lists.
RegisteredPatterns ==
    {onlyKvKeys[i] : i \in DOMAIN onlyKvKeys}
        \cup {exceptKvKeys[i] : i \in DOMAIN exceptKvKeys}

\* The positions at which the pattern neither has the wildcard nor the
\* segment of the key.
Mismatches(pattern, key) ==
    {n \in 1..Len(key) : pattern[n] # "*" /\ pattern[n] # key[n]}

StartsWith(pattern, key) ==
    /\ Len(key) >= Len(pattern)
    /\ \A n \in 1..(Len(pattern) - 1) : pattern[n] = key[n]

\* C12: a pattern that ends in "*" matches every key that starts with the
\* segments before the "*", whatever the key's number of segments.
C12_WildcardMatchesRest ==
    \A pattern \in RegisteredPatterns : \A key \in AllKvKeys :
        (pattern[Len(pattern)] = "*" /\ StartsWith(pattern, key))
        => matchKeyPath(pattern, key)

\* C13: decrypting an envelope fails with the key-not-found error when the
\* registry has no key of the envelope's kid, and with the decryption-failed
\* error when the key it has under that kid is another one; no value is
\* returned in either case.
C13_WrongKeyFails ==
    (result.op = "get" /\ store[result.key].encrypted
        /\ kmShouldEncrypt(result.key)
        /\ IsEnvelope(store[result.key].value))
    => LET envelope == store[result.key].value
           key == FindKid(envelope.kid)
       IN  /\ key = <<>>
                => (~result.ok /\ result.err = ErrKeyNotFound(envelope.kid))
           /\ (key # <<>> /\ key[1].key # envelope.ct.k)
                => (~result.ok /\ result.err = ErrDecrypt)

C13_Witness ==
    /\ result.op = "get" /\ ~result.ok /\ result.err = ErrDecrypt
    /\ FindKid(store[result.key].value.kid) # <<>>
    /\ FindKid(store[result.key].value.kid)[1].key
          # store[result.key].value.ct.k

\* C14: a get() that follows removeKey(k), k a key that had been added as
\* the active one, and receives a record encrypted under k fails with the
\* key-not-found error, whatever the registry still holds, also when it
\* holds nothing.
C14_RemovedKeyNotFound ==
    [][(result.op = "removeKey" /\ result'.op = "get" /\ hasKeyManager
          /\ activeKid = result.kid
          /\ store[result'.key].encrypted
          /\ IsEnvelope(store[result'.key].value)
          /\ store[result'.key].value.kid = result.kid)
       => (~result'.ok /\ result'.err = ErrKeyNotFound(result.kid))]_vars

\* C15: get() of a record flagged encrypted through a client that was given
\* no key manager fails with the no-key-manager-available error, before any
\* decryption is attempted.
C15_NoKeyManagerRead ==
    (result.op = "get" /\ ~hasKeyManager /\ store[result.key].encrypted)
    => (~result.ok /\ result.err = ErrNoKeyManager)

C15_Witness ==
    /\ result.op = "get" /\ ~hasKeyManager
    /\ store[result.key].encrypted /\ IsEnvelope(store[result.key].value)
    /\ ~result.ok

\* C16: the no-key-manager-available error is raised only by a client that
\* was given no key manager; a client with a key manager (here: one that
\* holds the key of the record) never raises it.
C16_NoKeyManagerOnlyWithout ==
    (result.op = "get" /\ ~result.ok /\ result.err = ErrNoKeyManager
        /\ Decryptable(store[result.key]))
    => ~hasKeyManager

SealedValues(envelope) ==
    {Plain(v) : v \in {w \in Values : JSONstringify(w) = envelope.ct.pt}}

\* C18: when the record on the wire is flagged encrypted, the entry that
\* set(), get() and the iteration of list() hand to the caller carries the
\* original plaintext value and encrypted=true, not the envelope.
C18_CallerSeesPlaintext ==
    /\ (result.op = "set" /\ result.ok /\ sent.encrypted)
          => /\ result.entry.encrypted = TRUE
             /\ result.entry.value = sent.plain
             /\ ~IsEnvelope(result.entry.value)
    /\ (result.op \in {"get", "list"} /\ result.ok
            /\ store[result.key].encrypted)
          => /\ result.entry.encrypted = TRUE
             /\ result.entry.key = result.key
             /\ result.entry.value \in SealedValues(store[result.key].value)
             /\ ~IsEnvelope(result.entry.value)

C18_Witness ==
    /\ result.op = "list" /\ result.ok /\ store[result.key].encrypted
    /\ sent = NoRequest /\ written # NoWrite
    /\ result.entry.value = Plain(written.value)
    /\ result.entry.encrypted

\* C19: export and import are inverse: for every key and every non-empty
\* kid, exportCryptoKey succeeds and importCryptoKey of what it returns has
\* the same kid and the same raw key bytes.
C19_ExportImportInverse ==
    (result.op = "exportCryptoKey" /\ result.kid # "")
    => /\ result.ok
       /\ LET imported == importCryptoKey(result.exported)
          IN  /\ imported.ok
              /\ imported.val.kid = result.kid
              /\ RawKey(imported.val.key) = RawKey(result.key)

\* C20: importCryptoKey fails on every malformed input, and with one and the
\* same kind of error on all of them.
C20_InvalidKeyFormat ==
    (result.op = "importCryptoKey" /\ result.base64Key \in MalformedKeys)
    => /\ ~result.ok
       /\ \A other \in MalformedKeys :
             importCryptoKey(other).err = result.err

\* C21: addKey fails with the kid-required error when the kid of the key
\* is empty or missing, and an addKey that fails (for the kid, or for a key
\* string that does not import) leaves the keys, the active kid and both
\* pattern lists as they were.
C21_FailedAddKeyNoEffect ==
    [][result'.op = "addKey" =>
          /\ ("jwk" \in DOMAIN result' /\ NoKid(result'.jwk))
                => (~result'.ok /\ result'.err = ErrKidRequired)
          /\ ~result'.ok
                => UNCHANGED <<keys, activeKid, onlyKvKeys, exceptKvKeys>>]_vars

C21_Witness ==
    /\ result.op = "addKey" /\ ~result.ok /\ result.err = ErrKidRequired
    /\ "kid" \notin DOMAIN result.jwk
    /\ Len(keys) > 0 /\ activeKid # ""
    /\ exceptKvKeys # <<>>

\* No key of the registry carries the active kid.
ActiveKidAbsent == \A i \in DOMAIN keys : keys[i].kid # activeKid

\* C22: getActiveKey() fails whenever the active kid is unset or is the kid
\* of no key of the registry, and once removeKey has taken the active key
\* away getActiveKey() fails: no other key becomes the active one.
C22_NoActiveKeyNoFallback ==
    /\ []((activeKid = "" \/ ActiveKidAbsent)
            => (~getActiveKey.ok /\ getActiveKey.err = ErrActiveKey))
    /\ [][(result'.op = "removeKey" /\ result'.kid = activeKid)
            => (~getActiveKey.ok)']_vars

C22_Witness ==
    /\ result.op = "removeKey" /\ result.kid = activeKid
    /\ Len(keys) > 0
    /\ ~getActiveKey.ok

\* C23: addKey(m, false) leaves isAvailable() and the outcome of
\* getActiveKey() as they were, in every state of the registry.
C23_InactiveAddChangesNothing ==
    [][(result'.op = "addKey" /\ result'.ok /\ ~result'.active)
          => (isAvailable' = isAvailable /\ getActiveKey' = getActiveKey)]_vars

\* Some registered except pattern matches the key.
Vetoed(key) ==
    \E i \in DOMAIN exceptKvKeys : matchKeyPath(exceptKvKeys[i], key)

C28_ActiveKidPresent ==
    /\ activeKid = "" \/ ~ActiveKidAbsent
    /\ isAvailable => getActiveKey.ok
    /\ \A key \in AllKvKeys : shouldEncrypt(key) => getActiveKey.ok

\* C26: every request of a client carries the access token connect()
\* resolved, from the option or from KV_ACCESS_TOKEN, in its Authorization
\* header.
C26_RequestsCarryResolvedToken ==
    sent.method # "none"
        => sent.headers.Authorization = <<"Bearer ", options.accessToken>>

\* next is prev with one element appended.
Appended(prev, next) ==
    Len(next) = Len(prev) + 1 /\ SubSeq(next, 1, Len(prev)) = prev

C29_AddKeyNotHalfApplied ==
    [][/\ (task.op # "addKey" /\ task'.op = "addKey")
            => UNCHANGED <<keys, activeKid>>
       /\ (result'.op = "addKey" /\ result'.ok)
            => /\ keys' = Append(keys, result'.jwk)
               /\ activeKid' = IF result'.active THEN result'.jwk.kid
                               ELSE activeKid
       /\ Len(keys') > Len(keys) => (result'.op = "addKey" /\ result'.ok)
       /\ activeKid' # activeKid
            => (result'.op = "addKey" /\ result'.ok /\ result'.active)]_vars

\* addKey(m, true) of a key string has completed after its await, in a
\* registry that another call has filled meanwhile or before.
C29_Witness ==
    /\ result.op = "addKey" /\ result.ok /\ result.active
    /\ "kty" \in DOMAIN result.jwk
    /\ keys = <<[kid |-> "a", key |-> "K2"], result.jwk>>
    /\ activeKid = result.jwk.kid
    /\ result.jwk.kid = "b"

\* The operations of a request that commit() has sealed.
SealedByCommit(source, toSend) ==
    {i \in DOMAIN toSend :
        /\ toSend[i].type = "set" /\ toSend[i].encrypted
        /\ ~source[i].encrypted}

\* The envelope names the active key of this state and is sealed with its
\* material.
UnderActiveKey(envelope) ==
    /\ getActiveKey.ok
    /\ envelope.kid = activeKid
    /\ envelope.kid = getActiveKey.val.kid
    /\ envelope.ct.k = getActiveKey.val.key

\* C30: the envelope set() makes and every envelope commit() makes is made
\* in the step that decides to encrypt, under the key active in that step;
\* the request sent later carries these envelopes unchanged, so that all
\* envelopes of one commit() name one kid, whatever key is active by then.
C30_EnvelopeUnderDecidingKey ==
    [][/\ (task.op # "set" /\ task'.op = "set")
            => UnderActiveKey(task'.encryptedValue)
       /\ (task.op # "commit" /\ task'.op = "commit")
            => \A i \in SealedByCommit(task'.source, task'.operationsToSend) :
                  UnderActiveKey(task'.operationsToSend[i].value)
       /\ (task.op = "set" /\ result'.op = "set")
            => (sent'.method = "PUT" /\ sent'.value = task.encryptedValue)
       /\ (task.op = "commit" /\ result'.op = "commit")
            => /\ sent'.method = "POST"
               /\ sent'.operations = task.operationsToSend
               /\ \A i, j \in SealedByCommit(sent'.source, sent'.operations) :
                     sent'.operations[i].value.kid
                        = sent'.operations[j].value.kid]_vars

\* A commit() whose two envelopes went out after the active key was
\* rotated: they name the key of the decision, not the active one.
C30_Witness ==
    /\ sent.method = "POST"
    /\ SealedByCommit(sent.source, sent.operations) = {1, 2}
    /\ getActiveKey.ok
    /\ sent.operations[1].value.kid # activeKid
    /\ sent.operations[1].value.ct.k # getActiveKey.val.key
    /\ sent.operations[2].value.kid = sent.operations[1].value.kid

\* C31: when the encryption throws in set(), or in the callback of any
\* operation of commit(), the call fails and sends nothing: no request
\* goes out, the server's records stay as they are and nothing of the call
\* stays in flight.
C31_FailedEncryptionSendsNothing ==
    [][/\ (task = Idle /\ result'.op = "set"
            /\ kmShouldEncrypt(result'.key) /\ ~getActiveKey.ok)
            => ~result'.ok
       /\ (task = Idle /\ ~getActiveKey.ok
            /\ \E i \in DOMAIN operations : toEncrypt(operations[i]))
            => task'.op # "commit"
       /\ (result'.op \in {"set", "commit"} /\ ~result'.ok)
            => (sent' = NoRequest /\ store' = store /\ task' = Idle)]_vars

\* commit() has failed on a builder that holds one operation to encrypt
\* and one to send as it is.
C31_Witness ==
    /\ result.op = "commit" /\ ~result.ok
    /\ sent = NoRequest
    /\ \E i, j \in DOMAIN operations :
          /\ toEncrypt(operations[i])
          /\ ~toEncrypt(operations[j])

\* C32: commit() leaves the builder as it was: neither its first stretch
\* nor its request changes checks or operations, whose set operations keep
\* their plaintext values and encrypted=false; so a further commit() of the
\* builder starts from the same operations and seals them under the key
\* active then.
C32_CommitLeavesBuilder ==
    /\ [](\A i \in DOMAIN operations :
            operations[i].type = "set"
            => (~operations[i].encrypted /\ ~IsEnvelope(operations[i].value)))
    /\ [][((task.op # "commit" /\ task'.op = "commit")
             \/ result'.op = "commit")
            => UNCHANGED <<checks, operations>>]_vars
    /\ [][(task.op # "commit" /\ task'.op = "commit")
            => /\ task'.source = operations
               /\ \A i \in DOMAIN operations :
                     toEncrypt(operations[i])
                     => /\ task'.operationsToSend[i].value.kid = activeKid
                        /\ task'.operationsToSend[i].value.ct.pt
                             = JSONstringify(operations[i].value.js)]_vars

\* A further commit() is in flight: the server holds the envelope of an
\* earlier commit() under key b, and the same operation is now sealed under
\* key a.
C32_Witness ==
    /\ task.op = "commit"
    /\ \E i \in DOMAIN operations :
          /\ operations[i].type = "set" /\ ~operations[i].encrypted
          /\ i \in DOMAIN task.source /\ task.source[i] = operations[i]
          /\ task.operationsToSend[i].encrypted
          /\ task.operationsToSend[i].value.kid = "a"
          /\ operations[i].key \in DOMAIN store
          /\ store[operations[i].key].encrypted
          /\ IsEnvelope(store[operations[i].key].value)
          /\ store[operations[i].key].value.kid = "b"
          /\ store[operations[i].key].value.ct.pt
               = JSONstringify(operations[i].value.js)

\* The entry can be handed to the caller in this state of the key manager.
CanBeRead(entry) ==
    \/ ~entry.encrypted
    \/ /\ kmShouldEncrypt(entry.key)
       /\ typeof(entry.value) = "object"
       /\ decryptData(entry.value).ok

\* C33: every step of the iteration of a list result takes the first entry
\* of the response not yet come to.  It yields that entry, an encrypted one
\* decrypted with the key manager as it is in this step, and goes on to the
\* rest; or, when the entry cannot be decrypted, it throws and the
\* iteration is over, so that no later entry is yielded.
C33_ListInOrderUntilFailure ==
    [][(task.op = "list" /\ task.data # <<>> /\ result'.op = "list")
          => LET entry == Head(task.data)
             IN  /\ result'.key = entry.key
                 /\ result'.index = task.index
                 /\ result'.ok <=> CanBeRead(entry)
                 /\ result'.ok
                      => /\ task'.op = "list"
                         /\ task'.data = Tail(task.data)
                         /\ task'.index = task.index + 1
                         /\ result'.entry.version = entry.version
                         /\ result'.entry.encrypted = entry.encrypted
                         /\ result'.entry.value
                              = IF entry.encrypted
                                THEN decryptData(entry.value).val
                                ELSE entry.value
                 /\ ~result'.ok => task' = Idle]_vars

\* The iteration has thrown at the second entry of a response.
C33_Witness ==
    /\ result.op = "list" /\ ~result.ok
    /\ result.index = 2
    /\ task = Idle

\* C34: a record that is not flagged encrypted is returned by get(), and
\* yielded by the iteration of list(), with the value, key, version and
\* flag received, whatever the key manager holds and also without one; an
\* envelope in such a record comes back as the envelope.
C34_UnflaggedReadAsReceived ==
    [][/\ (result'.op = "get" /\ ~store[result'.key].encrypted)
            => /\ result'.ok
               /\ result'.entry = [key |-> result'.key,
                                   value |-> store[result'.key].value,
                                   version |-> store[result'.key].version,
                                   encrypted |-> FALSE]
       /\ (task.op = "list" /\ task.data # <<>> /\ result'.op = "list"
            /\ ~Head(task.data).encrypted)
            => /\ result'.ok
               /\ result'.entry = Head(task.data)]_vars

\* get() has returned an unflagged envelope as it is, although the key
\* manager holds the key that opens it and would encrypt this key.
C34_Witness ==
    /\ result.op = "get" /\ result.ok
    /\ ~result.entry.encrypted
    /\ IsEnvelope(result.entry.value)
    /\ kmShouldEncrypt(result.key)
    /\ decryptData(result.entry.value).ok

\* Values that are no objects to the caller: a string, a number, null.
NonObjects == {Plain("str"), Plain("NaN"), Plain(Null)}

\* C35: on a client whose key manager would encrypt the key, a record
\* flagged encrypted whose value is a string, a number or null makes get()
\* and the iteration of list() fail with the error 'Encrypted value
\* received but value is not a object'.
C35_FlaggedNonObjectRejected ==
    [][/\ (result'.op = "get" /\ kmShouldEncrypt(result'.key)
            /\ store[result'.key].encrypted
            /\ store[result'.key].value \in NonObjects)
            => (~result'.ok /\ result'.err = ErrNotObject)
       /\ (task.op = "list" /\ task.data # <<>> /\ result'.op = "list"
            /\ kmShouldEncrypt(Head(task.data).key)
            /\ Head(task.data).encrypted
            /\ Head(task.data).value \in NonObjects)
            => (~result'.ok /\ result'.err = ErrNotObject)]_vars

\* The keys of seq whose kid is not kid, in their order.
RECURSIVE OtherKids(_, _)
OtherKids(seq, kid) ==
    IF seq = <<>> THEN <<>>
    ELSE IF Head(seq).kid = kid THEN OtherKids(Tail(seq), kid)
    ELSE <<Head(seq)>> \o OtherKids(Tail(seq), kid)

\* C36: removeKey(kid) leaves no key of that kid in the registry and every
\* key of another kid where it was among the others, with its material;
\* both pattern lists stay as they are; and when no key has the kid, the
\* registry stays as it is.
C36_RemoveKeyRemovesOnlyKid ==
    [][result'.op = "removeKey"
          => /\ \A i \in DOMAIN keys' : keys'[i].kid # result'.kid
             /\ keys' = OtherKids(keys, result'.kid)
             /\ UNCHANGED <<exceptKvKeys, onlyKvKeys>>
             /\ (\A i \in DOMAIN keys : keys[i].kid # result'.kid)
                   => UNCHANGED <<keys, activeKid, exceptKvKeys,
                                  onlyKvKeys>>]_vars

\* removeKey has left a key of another kid in a registry with patterns.
C36_Witness ==
    /\ result.op = "removeKey"
    /\ Len(keys) > 0
    /\ \A i \in DOMAIN keys : keys[i].kid # result.kid
    /\ exceptKvKeys # <<>> /\ onlyKvKeys # <<>>

====
